---- MODULE Spec2Model ----
(***************************************************************************)
(* covid-world-map: the Country Aggregator (processCountryData and the     *)
(* WorldMap countryDataMap memo), the colour classifier getCountryColor,   *)
(* and the App / WorldMap event handlers (load, click, hover, leave).      *)
(***************************************************************************)
EXTENDS Integers, Sequences, FiniteSets, TLC

VARIABLES
    covidData,          \* App state: CovidData[]                (set by loadData)
    loading,            \* App state: boolean
    error,              \* App state: string | null ("" stands for null)
    selectedCountry,    \* App state: CountryData | null
    countryDataMap,     \* WorldMap memo: Map<string, CountryData>
    countryList,        \* result of processCountryData(covidData)
    tooltip,            \* WorldMap state: {visible, content}
    tooltipTimeoutRef,  \* WorldMap ref: a timeout id, or null (0 stands for null)
    timers,             \* the timeouts scheduled with setTimeout and not cleared
    notified,           \* number of onCountrySelect calls made by the last handler
    color,              \* the last getCountryColor call: its argument and its value
    parsed,             \* what the parseCSV() promise settled with, and on which branch
    event,              \* the last handler that ran, and its argument
    pc                  \* position of the load sequence / of the function under check

vars == <<covidData, loading, error, selectedCountry, countryDataMap, countryList,
          tooltip, tooltipTimeoutRef, timers, notified, color, parsed, event, pc>>

(***************************************************************************)
(* Bounds of the model.                                                    *)
(***************************************************************************)
MaxRecords == 3

(***************************************************************************)
(* JavaScript values.  A field of a Raw Record is text (a sequence of      *)
(* characters), a number, the number NaN, or undefined (absent field).     *)
(***************************************************************************)
Text(s) == [k |-> "string", s |-> s, n |-> 0]
Num(n) == [k |-> "number", s |-> <<>>, n |-> n]
NaN == [k |-> "NaN", s |-> <<>>, n |-> 0]
Undefined == [k |-> "undefined", s |-> <<>>, n |-> 0]
Null == [k |-> "null", s |-> <<>>, n |-> 0]

IsNumber(v) == v.k = "number"
IsNaN(v) == v.k = "NaN"

Digits == {"0", "1", "2", "3", "4", "5", "6", "7", "8", "9"}

DigitVal(c) ==
    CASE c = "0" -> 0 [] c = "1" -> 1 [] c = "2" -> 2 [] c = "3" -> 3 [] c = "4" -> 4
      [] c = "5" -> 5 [] c = "6" -> 6 [] c = "7" -> 7 [] c = "8" -> 8 [] c = "9" -> 9

RECURSIVE TrimLeft(_)
TrimLeft(s) == IF s # <<>> /\ Head(s) = " " THEN TrimLeft(Tail(s)) ELSE s

RECURSIVE TrimRight(_)
TrimRight(s) ==
    IF s # <<>> /\ s[Len(s)] = " " THEN TrimRight(SubSeq(s, 1, Len(s) - 1)) ELSE s

RECURSIVE DecimalValue(_, _)
DecimalValue(s, acc) ==
    IF s = <<>> THEN acc ELSE DecimalValue(Tail(s), acc * 10 + DigitVal(Head(s)))

AllDigits(s) == s # <<>> /\ \A i \in 1..Len(s) : s[i] \in Digits

\* StringToNumber: white space is stripped, the empty string is 0, a signed
\* decimal integer literal is its value, anything else is NaN.
StringToNumber(s) ==
    LET t == TrimRight(TrimLeft(s)) IN
    IF t = <<>> THEN Num(0)
    ELSE IF Head(t) = "-" /\ AllDigits(Tail(t)) THEN Num(0 - DecimalValue(Tail(t), 0))
    ELSE IF Head(t) = "+" /\ AllDigits(Tail(t)) THEN Num(DecimalValue(Tail(t), 0))
    ELSE IF AllDigits(t) THEN Num(DecimalValue(t, 0))
    ELSE NaN

\* Number(v)
ToNumber(v) ==
    CASE v.k = "string" -> StringToNumber(v.s)
      [] v.k = "number" -> v
      [] v.k = "NaN" -> NaN
      [] v.k = "undefined" -> NaN
      [] v.k = "null" -> Num(0)

\* ToBoolean(v) is false
Falsy(v) ==
    \/ v.k \in {"undefined", "null", "NaN"}
    \/ v.k = "number" /\ v.n = 0
    \/ v.k = "string" /\ v.s = <<>>

\* v || 0
\* variant: v ?? 0
OrZeroNullish(v) == IF v.k \in {"undefined", "null"} THEN Num(0) ELSE v
OrZero(v) == IF Falsy(v) THEN Num(0) ELSE v

\* Number(v) || 0
\* variant: Number(v) without the || 0
CoerceNoFallback(v) == ToNumber(v)
Coerce(v) == OrZero(ToNumber(v))

\* Math.max(...values) of a non-empty list of numbers: NaN if any is NaN
RECURSIVE MaxOf(_)
MaxOf(vals) ==
    IF Len(vals) = 1 THEN vals[1]
    ELSE LET m == MaxOf(Tail(vals)) IN IF vals[1] >= m THEN vals[1] ELSE m

\* variant: the first value, not the maximum
MathMaxFirst(vals) == vals[1]
MathMax(vals) ==
    IF \E i \in 1..Len(vals) : ~IsNumber(vals[i]) THEN NaN
    ELSE Num(MaxOf([i \in 1..Len(vals) |-> vals[i].n]))

(***************************************************************************)
(* Dates.  The date field is text "YYYY-MM-DD", modelled as the tuple      *)
(* <<y, m, d>> of its parts; <<>> is the empty text.  new Date(text)       *)
(* .getTime() is the time since the epoch (UTC midnight of that day), or   *)
(* NaN when the text is no date.  The model counts it in days, the unit of *)
(* every date-only text, to stay within 32-bit integers.                   *)
(***************************************************************************)

ValidDate(date) ==
    /\ Len(date) = 3
    /\ date[2] \in 1..12
    /\ date[3] \in 1..31

\* days since 1970-01-01 of a civil date (proleptic Gregorian calendar)
DaysFromCivil(y, m, d) ==
    LET yy == IF m <= 2 THEN y - 1 ELSE y
        era == yy \div 400
        yoe == yy - era * 400
        mp == IF m > 2 THEN m - 3 ELSE m + 9
        doy == (153 * mp + 2) \div 5 + d - 1
        doe == yoe * 365 + yoe \div 4 - yoe \div 100 + doy
    IN era * 146097 + doe - 719468

\* new Date(date).getTime()
GetTime(date) ==
    IF ValidDate(date) THEN Num(DaysFromCivil(date[1], date[2], date[3]))
    ELSE NaN

\* x - y on JavaScript numbers
Minus(x, y) == IF IsNumber(x) /\ IsNumber(y) THEN Num(x.n - y.n) ELSE NaN

\* the comparator handed to sort, on the two getTime() values: most recent first
\* variant: oldest first
CompareTimesAscending(ta, tb) == Minus(ta, tb)
CompareTimes(ta, tb) == Minus(tb, ta)

CompareFn(a, b) == CompareTimes(GetTime(a.date), GetTime(b.date))

\* Array.prototype.sort's SortCompare: a NaN result of the comparator counts as +0
SortCompareTimes(ta, tb) == LET v == CompareTimes(ta, tb) IN IF IsNaN(v) THEN 0 ELSE v.n
SortCompare(a, b) == LET v == CompareFn(a, b) IN IF IsNaN(v) THEN 0 ELSE v.n

RECURSIVE Times(_)
Times(records) ==
    IF records = <<>> THEN <<>> ELSE <<GetTime(Head(records).date)>> \o Times(Tail(records))

\* the comparator is a consistent comparator for the elements of records
ConsistentComparator(records) ==
    LET t == Times(records) IN
    \A i, j, l \in 1..Len(records) :
        (SortCompareTimes(t[i], t[j]) <= 0 /\ SortCompareTimes(t[j], t[l]) <= 0)
            => SortCompareTimes(t[i], t[l]) <= 0

\* x inserted behind every element that does not sort after it
RECURSIVE InsertSorted(_, _)
InsertSorted(sorted, x) ==
    IF sorted = <<>> THEN <<x>>
    ELSE IF SortCompare(Head(sorted), x) > 0 THEN <<x>> \o sorted
    ELSE <<Head(sorted)>> \o InsertSorted(Tail(sorted), x)

\* a stable sort: the one order a consistent comparator allows
RECURSIVE StableSort(_)
StableSort(records) ==
    IF records = <<>> THEN <<>>
    ELSE InsertSorted(StableSort(SubSeq(records, 1, Len(records) - 1)), records[Len(records)])

\* records with element i moved to the front
MoveToFront(records, i) ==
    <<records[i]>> \o SubSeq(records, 1, i - 1) \o SubSeq(records, i + 1, Len(records))

\* records.sort(compareFn).  With a consistent comparator the result is the
\* stable sort.  With an inconsistent one (an unparseable date among different
\* dates) the order is implementation-defined: engine says which element the
\* engine's algorithm leaves in front.
ArraySort(records, engine) ==
    IF ConsistentComparator(records) THEN StableSort(records)
    ELSE MoveToFront(StableSort(records), ((engine - 1) % Len(records)) + 1)

(***************************************************************************)
(* Raw Records (CovidData) and Country Summaries (CountryData).            *)
(* location, iso_code and continent are strings; "" is the empty text.     *)
(***************************************************************************)
Truthy(str) == str # ""

CovidRecord(iso, cont, loc, date, tc, td, tv, pop, cpm, dpm, vph) ==
    [iso_code |-> iso, continent |-> cont, location |-> loc, date |-> date,
     total_cases |-> tc, total_deaths |-> td, total_vaccinations |-> tv,
     population |-> pop, total_cases_per_million |-> cpm,
     total_deaths_per_million |-> dpm, total_vaccinations_per_hundred |-> vph]

EmptyMap == [key \in {} |-> Null]
MapHas(map, key) == key \in DOMAIN map
MapSet(map, key, val) == [x \in DOMAIN map \cup {key} |-> IF x = key THEN val ELSE map[x]]

(***************************************************************************)
(* processCountryData (utils/csvParser.ts)                                 *)
(***************************************************************************)
\* variant: the test of the location alone
RecordIncludedLocationOnly(record) == Truthy(record.location)
RecordIncluded(record) == Truthy(record.location) /\ Truthy(record.iso_code)

\* first pass: countryGroups, as the keys in insertion order and the arrays
\* variant: without the has() test, every record starts a new group
RECURSIVE GroupRecordsNoHas(_, _, _)
GroupRecordsNoHas(data, i, groups) ==
    IF i > Len(data) THEN groups
    ELSE LET record == data[i] IN
         IF RecordIncluded(record)
         THEN GroupRecordsNoHas(data, i + 1,
                    [keys |-> Append(groups.keys, record.location),
                     arrays |-> MapSet(groups.arrays, record.location, <<record>>)])
         ELSE GroupRecordsNoHas(data, i + 1, groups)

RECURSIVE GroupRecords(_, _, _)
GroupRecords(data, i, groups) ==
    IF i > Len(data) THEN groups
    ELSE LET record == data[i] IN
         IF RecordIncluded(record)
         THEN LET fresh == ~MapHas(groups.arrays, record.location)
                  arrays == IF fresh THEN MapSet(groups.arrays, record.location, <<>>)
                            ELSE groups.arrays
                  keys == IF fresh THEN Append(groups.keys, record.location)
                          ELSE groups.keys
              IN GroupRecords(data, i + 1,
                    [keys |-> keys,
                     arrays |-> MapSet(arrays, record.location,
                                       Append(arrays[record.location], record))])
         ELSE GroupRecords(data, i + 1, groups)

CountryGroups(data) == GroupRecords(data, 1, [keys |-> <<>>, arrays |-> EmptyMap])

\* variant: the last element of the sorted array
LatestRecordOldest(sortedRecords) == sortedRecords[Len(sortedRecords)]
LatestRecord(sortedRecords) == sortedRecords[1]

\* second pass, for one country: records is the group's array
CountrySummary(location, records, engine) ==
    LET sortedRecords == ArraySort(records, engine)
        latestRecord == LatestRecord(sortedRecords)
        n == Len(sortedRecords)
        totalCases == MathMax([i \in 1..n |-> Coerce(sortedRecords[i].total_cases)])
        totalDeaths == MathMax([i \in 1..n |-> Coerce(sortedRecords[i].total_deaths)])
        totalVaccinations ==
            MathMax([i \in 1..n |-> Coerce(sortedRecords[i].total_vaccinations)])
    IN [location |-> location,
        iso_code |-> latestRecord.iso_code,
        continent |-> latestRecord.continent,
        latestData |-> latestRecord,
        totalCases |-> Coerce(totalCases),
        totalDeaths |-> Coerce(totalDeaths),
        totalVaccinations |-> Coerce(totalVaccinations),
        population |-> Coerce(latestRecord.population),
        casesPerMillion |-> Coerce(latestRecord.total_cases_per_million),
        deathsPerMillion |-> Coerce(latestRecord.total_deaths_per_million),
        vaccinationRate |-> Coerce(latestRecord.total_vaccinations_per_hundred)]

\* the list processCountryData returns (one entry per group, in insertion order)
ProcessCountryData(data, engine) ==
    LET groups == CountryGroups(data)
        filled == SelectSeq(groups.keys, LAMBDA loc : Len(groups.arrays[loc]) # 0)
    IN [i \in 1..Len(filled) |->
            CountrySummary(filled[i], groups.arrays[filled[i]], engine)]

(***************************************************************************)
(* WorldMap's countryDataMap memo (components/WorldMap.tsx)                *)
(***************************************************************************)
MapRecordIncluded(record) == Truthy(record.location) /\ Truthy(record.iso_code)

RECURSIVE MapGroupRecords(_, _, _)
MapGroupRecords(data, i, groups) ==
    IF i > Len(data) THEN groups
    ELSE LET record == data[i] IN
         IF MapRecordIncluded(record)
         THEN LET fresh == ~MapHas(groups.arrays, record.location)
                  arrays == IF fresh THEN MapSet(groups.arrays, record.location, <<>>)
                            ELSE groups.arrays
                  keys == IF fresh THEN Append(groups.keys, record.location)
                          ELSE groups.keys
              IN MapGroupRecords(data, i + 1,
                    [keys |-> keys,
                     arrays |-> MapSet(arrays, record.location,
                                       Append(arrays[record.location], record))])
         ELSE MapGroupRecords(data, i + 1, groups)

MapCountryGroups(data) == MapGroupRecords(data, 1, [keys |-> <<>>, arrays |-> EmptyMap])

\* variant: the last element of the sorted array
MapLatestRecordOldest(sortedRecords) == sortedRecords[Len(sortedRecords)]
MapLatestRecord(sortedRecords) == sortedRecords[1]

\* variant: the summary carries the iso_code as its location
MapCountrySummaryIsoAsLocation(location, records, engine) ==
    LET sortedRecords == ArraySort(records, engine)
        latestRecord == MapLatestRecord(sortedRecords)
        n == Len(sortedRecords)
        totalCases == MathMax([i \in 1..n |-> Coerce(sortedRecords[i].total_cases)])
        totalDeaths == MathMax([i \in 1..n |-> Coerce(sortedRecords[i].total_deaths)])
        totalVaccinations ==
            MathMax([i \in 1..n |-> Coerce(sortedRecords[i].total_vaccinations)])
    IN [location |-> latestRecord.iso_code,
        iso_code |-> latestRecord.iso_code,
        continent |-> latestRecord.continent,
        latestData |-> latestRecord,
        totalCases |-> Coerce(totalCases),
        totalDeaths |-> Coerce(totalDeaths),
        totalVaccinations |-> Coerce(totalVaccinations),
        population |-> Coerce(latestRecord.population),
        casesPerMillion |-> Coerce(latestRecord.total_cases_per_million),
        deathsPerMillion |-> Coerce(latestRecord.total_deaths_per_million),
        vaccinationRate |-> Coerce(latestRecord.total_vaccinations_per_hundred)]
MapCountrySummary(location, records, engine) ==
    LET sortedRecords == ArraySort(records, engine)
        latestRecord == MapLatestRecord(sortedRecords)
        n == Len(sortedRecords)
        totalCases == MathMax([i \in 1..n |-> Coerce(sortedRecords[i].total_cases)])
        totalDeaths == MathMax([i \in 1..n |-> Coerce(sortedRecords[i].total_deaths)])
        totalVaccinations ==
            MathMax([i \in 1..n |-> Coerce(sortedRecords[i].total_vaccinations)])
    IN [location |-> location,
        iso_code |-> latestRecord.iso_code,
        continent |-> latestRecord.continent,
        latestData |-> latestRecord,
        totalCases |-> Coerce(totalCases),
        totalDeaths |-> Coerce(totalDeaths),
        totalVaccinations |-> Coerce(totalVaccinations),
        population |-> Coerce(latestRecord.population),
        casesPerMillion |-> Coerce(latestRecord.total_cases_per_million),
        deathsPerMillion |-> Coerce(latestRecord.total_deaths_per_million),
        vaccinationRate |-> Coerce(latestRecord.total_vaccinations_per_hundred)]

\* the Map the memo returns: location -> CountryData
CountryDataMap(data, engine) ==
    LET groups == MapCountryGroups(data)
        filled == {loc \in DOMAIN groups.arrays : Len(groups.arrays[loc]) # 0}
    IN [loc \in filled |-> MapCountrySummary(loc, groups.arrays[loc], engine)]

(***************************************************************************)
(* getCountryColor (components/WorldMap.tsx)                               *)
(***************************************************************************)
NoDataColor == "#f0f0f0"

\* the 8 bucket colours, lowest bucket first
BucketColors ==
    <<"#e8f5e8", "#c8e6c9", "#81c784", "#4caf50", "#388e3c", "#ff9800", "#f57c00", "#d32f2f">>

\* v < n for a JavaScript value v and a number n
LessThan(v, n) == LET x == ToNumber(v) IN IsNumber(x) /\ x.n < n
\* variant: v <= n
LessOrEqual(v, n) == LET x == ToNumber(v) IN IsNumber(x) /\ x.n <= n

\* the guard of the 'no data' return
\* variant: the test is made on totalCases
NoDataGuardByTotalCases(map, countryName) ==
    \/ ~MapHas(map, countryName)
    \/ Falsy(map[countryName].totalCases)
    \/ (IsNumber(map[countryName].totalCases) /\ map[countryName].totalCases.n = 0)
    \/ IsNaN(ToNumber(map[countryName].totalCases))
\* variant: the test of the missing summary alone
NoDataGuardFalsyOnly(map, countryName) == ~MapHas(map, countryName)
NoDataGuard(map, countryName) ==
    \/ ~MapHas(map, countryName)
    \/ Falsy(map[countryName].casesPerMillion)
    \/ (IsNumber(map[countryName].casesPerMillion) /\ map[countryName].casesPerMillion.n = 0)
    \/ IsNaN(ToNumber(map[countryName].casesPerMillion))

\* the chain of threshold tests
\* variant: the boundaries compared with <=
ColorScaleInclusive(casesPerMillion) ==
    IF LessOrEqual(casesPerMillion, 1000) THEN "#e8f5e8"
    ELSE IF LessOrEqual(casesPerMillion, 10000) THEN "#c8e6c9"
    ELSE IF LessOrEqual(casesPerMillion, 50000) THEN "#81c784"
    ELSE IF LessOrEqual(casesPerMillion, 100000) THEN "#4caf50"
    ELSE IF LessOrEqual(casesPerMillion, 200000) THEN "#388e3c"
    ELSE IF LessOrEqual(casesPerMillion, 500000) THEN "#ff9800"
    ELSE IF LessOrEqual(casesPerMillion, 1000000) THEN "#f57c00"
    ELSE "#d32f2f"
ColorScale(casesPerMillion) ==
    IF LessThan(casesPerMillion, 1000) THEN "#e8f5e8"
    ELSE IF LessThan(casesPerMillion, 10000) THEN "#c8e6c9"
    ELSE IF LessThan(casesPerMillion, 50000) THEN "#81c784"
    ELSE IF LessThan(casesPerMillion, 100000) THEN "#4caf50"
    ELSE IF LessThan(casesPerMillion, 200000) THEN "#388e3c"
    ELSE IF LessThan(casesPerMillion, 500000) THEN "#ff9800"
    ELSE IF LessThan(casesPerMillion, 1000000) THEN "#f57c00"
    ELSE "#d32f2f"

\* variant: without the final return
GetCountryColorNoDefault(map, countryName) ==
    IF NoDataGuard(map, countryName) THEN "#f0f0f0"
    ELSE IF LessThan(map[countryName].casesPerMillion, 1000000)
         THEN ColorScale(map[countryName].casesPerMillion)
         ELSE "undefined"
GetCountryColor(map, countryName) ==
    IF NoDataGuard(map, countryName) THEN "#f0f0f0"
    ELSE ColorScale(map[countryName].casesPerMillion)

(***************************************************************************)
(* Inputs: the Raw Records the checks draw from.                           *)
(***************************************************************************)
SeqsUpTo(U, n) == UNION {[1..k -> U] : k \in 0..n}

Date1 == <<2022, 12, 31>>
Date2 == <<2023, 2, 1>>
NoDate == <<>>

ContinentOf(iso) ==
    CASE iso = "AA" -> "Europe" [] iso = "AB" -> "Asia" [] OTHER -> ""

\* the numeric fields of a row: text as the decoder gives it, numbers as the
\* fallback sample gives them, undefined for a row shorter than the header
NumericRows ==
    <<[total_cases |-> Text(<<"5", "0">>), total_deaths |-> Text(<<"1">>),
       total_vaccinations |-> Text(<<>>), population |-> Text(<<"1", "0", "0", "0">>),
       total_cases_per_million |-> Text(<<" ", "2", "0", " ">>),
       total_deaths_per_million |-> Undefined,
       total_vaccinations_per_hundred |-> Text(<<"x">>)],
      [total_cases |-> Text(<<"4", "0">>), total_deaths |-> Text(<<"2">>),
       total_vaccinations |-> Num(7), population |-> Undefined,
       total_cases_per_million |-> Text(<<>>),
       total_deaths_per_million |-> Text(<<"3">>),
       total_vaccinations_per_hundred |-> Num(12)],
      [total_cases |-> Text(<<>>), total_deaths |-> Text(<<"x">>),
       total_vaccinations |-> Undefined, population |-> Num(5),
       total_cases_per_million |-> Text(<<"1", "x">>),
       total_deaths_per_million |-> Text(<<" ">>),
       total_vaccinations_per_hundred |-> Text(<<"-", "4">>)]>>

MakeRecord(loc, iso, date, row) ==
    CovidRecord(iso, ContinentOf(iso), loc, date, row.total_cases, row.total_deaths,
                row.total_vaccinations, row.population, row.total_cases_per_million,
                row.total_deaths_per_million, row.total_vaccinations_per_hundred)

RowIso == <<"AA", "AB", "AA">>

\* two countries at every dated row, and rows of country A whose date is empty
AggRecords ==
    {MakeRecord(loc, RowIso[p], date, NumericRows[p]) :
        loc \in {"A", "B"}, date \in {Date1, Date2}, p \in 1..3}
    \cup {MakeRecord("A", RowIso[p], NoDate, NumericRows[p]) : p \in 1..2}

RowDate == <<Date2, Date1>>

\* every combination of empty and non-empty location and iso_code
KeyRecords ==
    {MakeRecord(loc, iso, RowDate[p], NumericRows[p]) :
        loc \in {"", "A", "B"}, iso \in {"", "AA"}, p \in 1..2}

\* the names of the map's regions
CountryNames == {"A", "B", "C", "Germany"}

NoContent == [countryName |-> "", cases |-> Num(0), deaths |-> Num(0), perMillion |-> Num(0)]
NoColor == [countryName |-> "", value |-> ""]
NoEvent == [type |-> "", countryName |-> ""]
NothingParsed == [ok |-> TRUE, data |-> <<>>, branch |-> ""]

(***************************************************************************)
(* The aggregator applied to an input (both implementations, one engine).  *)
(***************************************************************************)
InitWith(inputs) ==
    /\ covidData \in inputs
    /\ loading = FALSE
    /\ error = ""
    /\ selectedCountry = Null
    /\ countryDataMap = EmptyMap
    /\ countryList = <<>>
    /\ tooltip = [visible |-> FALSE, content |-> NoContent]
    /\ tooltipTimeoutRef = 0
    /\ timers = {}
    /\ notified = 0
    /\ color = NoColor
    /\ parsed = NothingParsed
    /\ event = NoEvent
    /\ pc = "input"

Aggregate ==
    /\ pc = "input"
    /\ \E engine \in 1..MaxRecords :
        /\ countryList' = ProcessCountryData(covidData, engine)
        /\ countryDataMap' = CountryDataMap(covidData, engine)
    /\ pc' = "aggregated"
    /\ UNCHANGED <<covidData, loading, error, selectedCountry, tooltip,
                   tooltipTimeoutRef, timers, notified, color, parsed, event>>

InitAgg == InitWith(SeqsUpTo(AggRecords, MaxRecords))
NextAgg == Aggregate
SpecAgg == InitAgg /\ [][NextAgg]_vars

InitKeys == InitWith(SeqsUpTo(KeyRecords, MaxRecords))
SpecKeys == InitKeys /\ [][NextAgg]_vars

(***************************************************************************)
(* The classifier applied to the mapping of an input.                      *)
(***************************************************************************)
\* the metric at, just below and beyond every boundary, and without data
ColorMetrics ==
    {Text(<<>>), Text(<<"x">>), Num(0), Num(0 - 5), Num(1), Text(<<"9", "9", "9">>),
     Text(<<"1", "0", "0", "0">>), Num(9999), Num(10000), Num(49999), Num(50000),
     Num(99999), Num(100000), Num(199999), Num(200000), Num(499999), Num(500000),
     Num(999999), Num(1000000), Num(1000001)}

ColorRecord(loc, metric) ==
    CovidRecord("AA", "Europe", loc, Date1, Text(<<"5", "0">>), Text(<<"1">>), Text(<<>>),
                Text(<<"1", "0", "0", "0">>), metric, Text(<<"3">>), Num(12))

\* at most one record of country A and one of country B
ColorInputs ==
    {<<>>}
        \cup {<<ColorRecord("A", m)>> : m \in ColorMetrics}
        \cup {<<ColorRecord("B", m), ColorRecord("A", n)>> : m, n \in ColorMetrics}

InitColor == InitWith(ColorInputs)

\* the render calls getCountryColor(countryName) for a region of the map
Classify ==
    /\ pc \in {"aggregated", "classified"}
    /\ \E countryName \in CountryNames :
        color' = [countryName |-> countryName,
                  value |-> GetCountryColor(countryDataMap, countryName)]
    /\ pc' = "classified"
    /\ UNCHANGED <<covidData, loading, error, selectedCountry, countryDataMap, countryList,
                   tooltip, tooltipTimeoutRef, timers, notified, parsed, event>>

NextColor == Aggregate \/ Classify
SpecColor == InitColor /\ [][NextColor]_vars

\* the classifier applied to countries with several records: country A at
\* two dates with every row, and one record of country B
HistoryRecords ==
    {MakeRecord("A", RowIso[p], date, NumericRows[p]) : date \in {Date1, Date2}, p \in 1..3}
        \cup {MakeRecord("B", "AA", Date1, NumericRows[1])}

InitColorHistory == InitWith(SeqsUpTo(HistoryRecords, MaxRecords))
SpecColorHistory == InitColorHistory /\ [][NextColor]_vars

(***************************************************************************)
(* parseCSV and getSampleData (utils/csvParser.ts)                         *)
(***************************************************************************)
SampleRecord(iso, cont, loc, tc, td, cpm, dpm, tv, vph, pop) ==
    CovidRecord(iso, cont, loc, <<2023, 12, 1>>, Num(tc), Num(td), Num(tv), Num(pop),
                Num(cpm), Num(dpm), Num(vph))

\* variant: a sample of European countries only
GetSampleDataOneContinent ==
    <<SampleRecord("GB", "Europe", "United Kingdom", 24685189, 213915, 362320, 3140,
                   151522471, 222, 68138484),
      SampleRecord("DE", "Europe", "Germany", 38112157, 174352, 456789, 2091,
                   192479369, 230, 83422553)>>
\* getSampleData(); total_vaccinations_per_hundred (203.1, 222.4, 230.8) is
\* kept to its integer part
GetSampleData ==
    <<SampleRecord("US", "North America", "United States", 103436829, 1127152, 309848,
                   3379, 676728381, 203, 333287557),
      SampleRecord("GB", "Europe", "United Kingdom", 24685189, 213915, 362320, 3140,
                   151522471, 222, 68138484),
      SampleRecord("DE", "Europe", "Germany", 38112157, 174352, 456789, 2091,
                   192479369, 230, 83422553)>>

\* the rows a decoded dataset is made of
AppRecords ==
    {MakeRecord("A", "AA", Date1, NumericRows[1]),
     MakeRecord("A", "AB", Date2, NumericRows[2]),
     MakeRecord("B", "AA", Date1, NumericRows[3]),
     MakeRecord("B", "AB", Date2, NumericRows[1]),
     MakeRecord("C", "", Date1, NumericRows[1])}

\* fetch() rejects: the catch returns the sample
FetchRejected ==
    /\ pc = "fetching"
    /\ parsed' = [ok |-> TRUE, data |-> GetSampleData, branch |-> "fetch rejected"]
    /\ pc' = "settled"
    /\ event' = [type |-> "fetch rejected", countryName |-> ""]
    /\ UNCHANGED <<covidData, loading, error, selectedCountry, countryDataMap, countryList,
                   tooltip, tooltipTimeoutRef, timers, notified, color>>

\* the response is not ok (404): the sample
ResponseNotOk ==
    /\ pc = "fetching"
    /\ parsed' = [ok |-> TRUE, data |-> GetSampleData, branch |-> "response not ok"]
    /\ pc' = "settled"
    /\ event' = [type |-> "response not ok", countryName |-> ""]
    /\ UNCHANGED <<covidData, loading, error, selectedCountry, countryDataMap, countryList,
                   tooltip, tooltipTimeoutRef, timers, notified, color>>

\* variant: the rejection of response.text() is not caught
TextRejectedNotCaught ==
    /\ pc = "fetching"
    /\ parsed' = [ok |-> FALSE, data |-> <<>>, branch |-> "text rejected"]
    /\ pc' = "settled"
    /\ event' = [type |-> "text rejected", countryName |-> ""]
    /\ UNCHANGED <<covidData, loading, error, selectedCountry, countryDataMap, countryList,
                   tooltip, tooltipTimeoutRef, timers, notified, color>>
\* response.text() rejects: the catch returns the sample
TextRejected ==
    /\ pc = "fetching"
    /\ parsed' = [ok |-> TRUE, data |-> GetSampleData, branch |-> "text rejected"]
    /\ pc' = "settled"
    /\ event' = [type |-> "text rejected", countryName |-> ""]
    /\ UNCHANGED <<covidData, loading, error, selectedCountry, countryDataMap, countryList,
                   tooltip, tooltipTimeoutRef, timers, notified, color>>

\* Papa.parse calls complete: the promise resolves with results.data
ParseComplete ==
    /\ pc = "fetching"
    /\ \E data \in SeqsUpTo(AppRecords, MaxRecords) :
           parsed' = [ok |-> TRUE, data |-> data, branch |-> "parse complete"]
    /\ pc' = "settled"
    /\ event' = [type |-> "parse complete", countryName |-> ""]
    /\ UNCHANGED <<covidData, loading, error, selectedCountry, countryDataMap, countryList,
                   tooltip, tooltipTimeoutRef, timers, notified, color>>

\* variant: the error callback resolves with no records
ParseErrorEmpty ==
    /\ pc = "fetching"
    /\ parsed' = [ok |-> TRUE, data |-> <<>>, branch |-> "parse error"]
    /\ pc' = "settled"
    /\ event' = [type |-> "parse error", countryName |-> ""]
    /\ UNCHANGED <<covidData, loading, error, selectedCountry, countryDataMap, countryList,
                   tooltip, tooltipTimeoutRef, timers, notified, color>>
\* Papa.parse calls error: the promise resolves with the sample
ParseError ==
    /\ pc = "fetching"
    /\ parsed' = [ok |-> TRUE, data |-> GetSampleData, branch |-> "parse error"]
    /\ pc' = "settled"
    /\ event' = [type |-> "parse error", countryName |-> ""]
    /\ UNCHANGED <<covidData, loading, error, selectedCountry, countryDataMap, countryList,
                   tooltip, tooltipTimeoutRef, timers, notified, color>>

\* Papa.parse throws inside the promise executor: the promise rejects, and
\* the catch of parseCSV does not see it (the promise is returned, not awaited)
ParseThrows ==
    /\ pc = "fetching"
    /\ parsed' = [ok |-> FALSE, data |-> <<>>, branch |-> "parse throws"]
    /\ pc' = "settled"
    /\ event' = [type |-> "parse throws", countryName |-> ""]
    /\ UNCHANGED <<covidData, loading, error, selectedCountry, countryDataMap, countryList,
                   tooltip, tooltipTimeoutRef, timers, notified, color>>

ParseCSV ==
    \/ FetchRejected
    \/ ResponseNotOk
    \/ TextRejected
    \/ ParseComplete
    \/ ParseError
    \/ ParseThrows

(***************************************************************************)
(* App: the load sequence (App.tsx)                                        *)
(***************************************************************************)
ErrorMessage == "Failed to load COVID-19 data. Please check if the CSV file is accessible."

Init ==
    /\ covidData = <<>>
    /\ loading = TRUE
    /\ error = ""
    /\ selectedCountry = Null
    /\ countryDataMap = EmptyMap
    /\ countryList = <<>>
    /\ tooltip = [visible |-> FALSE, content |-> NoContent]
    /\ tooltipTimeoutRef = 0
    /\ timers = {}
    /\ notified = 0
    /\ color = NoColor
    /\ parsed = NothingParsed
    /\ event = NoEvent
    /\ pc = "mount"

\* the effect runs loadData: setLoading(true), then parseCSV() is awaited
LoadStart ==
    /\ pc = "mount"
    /\ loading' = TRUE
    /\ pc' = "fetching"
    /\ event' = [type |-> "load", countryName |-> ""]
    /\ UNCHANGED <<covidData, error, selectedCountry, countryDataMap, countryList, tooltip,
                   tooltipTimeoutRef, timers, notified, color, parsed>>

\* variant: an empty result is replaced by the sample
LoadResolvedFallbackOnEmpty ==
    /\ pc = "settled"
    /\ parsed.ok
    /\ covidData' = IF parsed.data = <<>> THEN GetSampleData ELSE parsed.data
    /\ error' = ""
    /\ pc' = "finally"
    /\ event' = [type |-> "resolved", countryName |-> ""]
    /\ UNCHANGED <<loading, selectedCountry, countryDataMap, countryList, tooltip,
                   tooltipTimeoutRef, timers, notified, color, parsed>>
\* the await returned: setCovidData(data); setError(null)
LoadResolved ==
    /\ pc = "settled"
    /\ parsed.ok
    /\ covidData' = parsed.data
    /\ error' = ""
    /\ pc' = "finally"
    /\ event' = [type |-> "resolved", countryName |-> ""]
    /\ UNCHANGED <<loading, selectedCountry, countryDataMap, countryList, tooltip,
                   tooltipTimeoutRef, timers, notified, color, parsed>>

\* variant: the catch sets no message
LoadRejectedSilent ==
    /\ pc = "settled"
    /\ ~parsed.ok
    /\ error' = ""
    /\ pc' = "finally"
    /\ event' = [type |-> "rejected", countryName |-> ""]
    /\ UNCHANGED <<covidData, loading, selectedCountry, countryDataMap, countryList, tooltip,
                   tooltipTimeoutRef, timers, notified, color, parsed>>
\* the await threw: setError(message)
LoadRejected ==
    /\ pc = "settled"
    /\ ~parsed.ok
    /\ error' = ErrorMessage
    /\ pc' = "finally"
    /\ event' = [type |-> "rejected", countryName |-> ""]
    /\ UNCHANGED <<covidData, loading, selectedCountry, countryDataMap, countryList, tooltip,
                   tooltipTimeoutRef, timers, notified, color, parsed>>

\* the App shows neither the loading view nor the error view
ShowsMap == ~loading /\ error = ""

\* variant: setLoading(false) at the end of the try block, not in finally
LoadFinallyOnSuccessOnly ==
    /\ pc = "finally"
    /\ loading' = (error # "")
    /\ pc' = "done"
    /\ event' = [type |-> "finally", countryName |-> ""]
    /\ IF error = ""
       THEN \E engine \in 1..MaxRecords :
                countryDataMap' = CountryDataMap(covidData, engine)
       ELSE UNCHANGED countryDataMap
    /\ UNCHANGED <<covidData, error, selectedCountry, countryList, tooltip,
                   tooltipTimeoutRef, timers, notified, color, parsed>>
\* variant: the memo sorts the Raw Records themselves, not the group arrays
LoadFinallySortsInPlace ==
    /\ pc = "finally"
    /\ loading' = FALSE
    /\ pc' = "done"
    /\ event' = [type |-> "finally", countryName |-> ""]
    /\ IF error = ""
       THEN \E engine \in 1..MaxRecords :
                /\ countryDataMap' = CountryDataMap(covidData, engine)
                /\ covidData' = IF covidData = <<>> THEN covidData
                                ELSE ArraySort(covidData, engine)
       ELSE UNCHANGED <<countryDataMap, covidData>>
    /\ UNCHANGED <<error, selectedCountry, countryList, tooltip,
                   tooltipTimeoutRef, timers, notified, color, parsed>>
\* finally: setLoading(false).  If no error is set the App now renders
\* WorldMap, whose memo computes countryDataMap from covidData.
LoadFinally ==
    /\ pc = "finally"
    /\ loading' = FALSE
    /\ pc' = "done"
    /\ event' = [type |-> "finally", countryName |-> ""]
    /\ IF error = ""
       THEN \E engine \in 1..MaxRecords :
                countryDataMap' = CountryDataMap(covidData, engine)
       ELSE UNCHANGED countryDataMap
    /\ UNCHANGED <<covidData, error, selectedCountry, countryList, tooltip,
                   tooltipTimeoutRef, timers, notified, color, parsed>>

(***************************************************************************)
(* WorldMap: the handlers of a region (components/WorldMap.tsx)            *)
(***************************************************************************)
\* WorldMap returns the message "No COVID-19 data available" and no region
NoDataMessageShown == ShowsMap /\ Len(covidData) = 0

\* variant: the map is rendered as soon as there are records, loading or not
RegionsRenderedWhileLoading == error = "" /\ Len(covidData) # 0
\* the regions are rendered, so their handlers can run
RegionsRendered == ShowsMap /\ Len(covidData) # 0

\* variant: a selection, once made, is kept
HandleCountrySelectKeepsFirst(countryData) ==
    selectedCountry' = IF selectedCountry = Null THEN countryData ELSE selectedCountry
\* App.handleCountrySelect
HandleCountrySelect(countryData) == selectedCountry' = countryData

\* variant: onCountrySelect is called whatever the lookup gives
HandleCountryClickNoLookup(countryName) ==
    /\ RegionsRendered
    /\ IF MapHas(countryDataMap, countryName)
       THEN HandleCountrySelect(countryDataMap[countryName]) /\ notified' = 1
       ELSE HandleCountrySelect(Null) /\ notified' = 1
    /\ event' = [type |-> "click", countryName |-> countryName]
    /\ UNCHANGED <<covidData, loading, error, countryDataMap, countryList, tooltip,
                   tooltipTimeoutRef, timers, color, parsed, pc>>
HandleCountryClick(countryName) ==
    /\ RegionsRendered
    /\ IF MapHas(countryDataMap, countryName)
       THEN HandleCountrySelect(countryDataMap[countryName]) /\ notified' = 1
       ELSE UNCHANGED selectedCountry /\ notified' = 0
    /\ event' = [type |-> "click", countryName |-> countryName]
    /\ UNCHANGED <<covidData, loading, error, countryDataMap, countryList, tooltip,
                   tooltipTimeoutRef, timers, color, parsed, pc>>

\* clearTimeout(id)
ClearTimeout(pending, id) == {tm \in pending : tm.id # id}

\* the id setTimeout returns: one no pending timeout and no stale reference has
FreshTimerId(pending, ref) ==
    CHOOSE id \in 1..(Cardinality(pending) + 2) :
        id # ref /\ \A tm \in pending : tm.id # id

\* variant: any country of the mapping counts
HasValidDataAnySummary(map, countryName) == MapHas(map, countryName)
\* the tooltip is only scheduled for a country with valid data
HasValidData(map, countryName) ==
    /\ MapHas(map, countryName)
    /\ ~Falsy(map[countryName].totalCases)
    /\ LET x == ToNumber(map[countryName].totalCases) IN IsNumber(x) /\ x.n > 0

HandleMouseMove(countryName) ==
    /\ RegionsRendered
    /\ IF HasValidData(countryDataMap, countryName)
       THEN LET countryData == countryDataMap[countryName]
                cleared == IF tooltipTimeoutRef # 0
                           THEN ClearTimeout(timers, tooltipTimeoutRef)
                           ELSE timers
                id == FreshTimerId(timers, tooltipTimeoutRef)
            IN /\ timers' = cleared \cup
                       {[id |-> id,
                         content |-> [countryName |-> countryName,
                                      cases |-> ToNumber(countryData.totalCases),
                                      deaths |-> Coerce(countryData.totalDeaths),
                                      perMillion |-> Coerce(countryData.casesPerMillion)]]}
               /\ tooltipTimeoutRef' = id
       ELSE UNCHANGED <<timers, tooltipTimeoutRef>>
    /\ notified' = 0
    /\ event' = [type |-> "move", countryName |-> countryName]
    /\ UNCHANGED <<covidData, loading, error, selectedCountry, countryDataMap, countryList,
                   tooltip, color, parsed, pc>>

\* variant: the pending timeout is left alone
HandleMouseLeaveKeepsTimer ==
    /\ RegionsRendered
    /\ tooltip' = [tooltip EXCEPT !.visible = FALSE]
    /\ notified' = 0
    /\ event' = [type |-> "leave", countryName |-> ""]
    /\ UNCHANGED <<covidData, loading, error, selectedCountry, countryDataMap, countryList,
                   timers, tooltipTimeoutRef, color, parsed, pc>>
\* variant: the pointer leaving a region also drops the selection
HandleMouseLeaveClearsSelection ==
    /\ RegionsRendered
    /\ IF tooltipTimeoutRef # 0
       THEN timers' = ClearTimeout(timers, tooltipTimeoutRef) /\ tooltipTimeoutRef' = 0
       ELSE UNCHANGED <<timers, tooltipTimeoutRef>>
    /\ tooltip' = [tooltip EXCEPT !.visible = FALSE]
    /\ selectedCountry' = Null
    /\ notified' = 0
    /\ event' = [type |-> "leave", countryName |-> ""]
    /\ UNCHANGED <<covidData, loading, error, countryDataMap, countryList,
                   color, parsed, pc>>
HandleMouseLeave ==
    /\ RegionsRendered
    /\ IF tooltipTimeoutRef # 0
       THEN timers' = ClearTimeout(timers, tooltipTimeoutRef) /\ tooltipTimeoutRef' = 0
       ELSE UNCHANGED <<timers, tooltipTimeoutRef>>
    /\ tooltip' = [tooltip EXCEPT !.visible = FALSE]
    /\ notified' = 0
    /\ event' = [type |-> "leave", countryName |-> ""]
    /\ UNCHANGED <<covidData, loading, error, selectedCountry, countryDataMap, countryList,
                   color, parsed, pc>>

\* a pending timeout fires after its 150 ms: setTooltip({visible: true, ...})
TooltipTimeout ==
    /\ \E tm \in timers :
        /\ timers' = timers \ {tm}
        /\ tooltip' = [visible |-> TRUE, content |-> tm.content]
    /\ notified' = 0
    /\ event' = [type |-> "timeout", countryName |-> ""]
    /\ UNCHANGED <<covidData, loading, error, selectedCountry, countryDataMap, countryList,
                   tooltipTimeoutRef, color, parsed, pc>>

(***************************************************************************)
(* DataPanel: the rates of the selected country (components/DataPanel.tsx) *)
(* DataPanel is rendered from the selection on every render of the App, so *)
(* its rates are a function of selectedCountry.  A rate is a number, kept  *)
(* as the quotient it was computed from, or what a division by zero gives. *)
(***************************************************************************)
RateZero == [k |-> "number", num |-> 0, den |-> 1]
RateInfinity == [k |-> "Infinity", num |-> 0, den |-> 0]
RateNaN == [k |-> "NaN", num |-> 0, den |-> 0]

\* (count / population) * 100 of two numbers: x / 0 is Infinity or -Infinity,
\* 0 / 0 is NaN
Percentage(count, population) ==
    IF population.n = 0
    THEN IF count.n = 0 THEN RateNaN ELSE RateInfinity
    ELSE [k |-> "number", num |-> count.n, den |-> population.n]

SafeTotalCases(country) == Coerce(country.totalCases)
SafeTotalDeaths(country) == Coerce(country.totalDeaths)
SafePopulation(country) == Coerce(country.population)

DeathRate(country) ==
    IF SafePopulation(country).n > 0 /\ SafeTotalDeaths(country).n > 0
    THEN Percentage(SafeTotalDeaths(country), SafePopulation(country))
    ELSE RateZero

\* variant: the rate is computed whenever there are cases
CaseRateNoPopulationGuard(country) ==
    IF SafeTotalCases(country).n > 0
    THEN Percentage(SafeTotalCases(country), SafePopulation(country))
    ELSE RateZero
CaseRate(country) ==
    IF SafePopulation(country).n > 0 /\ SafeTotalCases(country).n > 0
    THEN Percentage(SafeTotalCases(country), SafePopulation(country))
    ELSE RateZero

Next ==
    \/ LoadStart
    \/ ParseCSV
    \/ LoadResolved
    \/ LoadRejected
    \/ LoadFinally
    \/ \E countryName \in CountryNames : HandleCountryClick(countryName)
    \/ \E countryName \in CountryNames : HandleMouseMove(countryName)
    \/ HandleMouseLeave
    \/ TooltipTimeout

Spec == Init /\ [][Next]_vars

\* The effect runs once the App is mounted, the promise of parseCSV settles
\* (fetch and response.text() resolve or reject, Papa.parse calls back or
\* throws), and the continuations of loadData run when it has.  The fairness
\* of LoadFinally is WF_vars(LoadFinally) written out: LoadFinally is enabled
\* exactly when pc = "finally".
LoadFairness ==
    /\ WF_vars(LoadStart)
    /\ WF_vars(ParseCSV)
    /\ WF_vars(LoadResolved)
    /\ WF_vars(LoadRejected)
    /\ ([]<>(pc # "finally") \/ []<><<LoadFinally>>_vars)
SpecLive == Spec /\ LoadFairness

(***************************************************************************)
(* What the specification says of the aggregator, stated on the input.     *)
(***************************************************************************)
RECURSIVE PowerOfTen(_)
PowerOfTen(e) == IF e = 0 THEN 1 ELSE 10 * PowerOfTen(e - 1)

RECURSIVE SumOver(_, _)
SumOver(f, S) ==
    IF S = {} THEN 0 ELSE LET x == CHOOSE y \in S : TRUE IN f[x] + SumOver(f, S \ {x})

\* the text between the first and the last character that is not a blank
Core(s) ==
    LET idx == {i \in 1..Len(s) : s[i] # " "} IN
    IF idx = {} THEN <<>>
    ELSE SubSeq(s, CHOOSE i \in idx : \A j \in idx : i <= j,
                   CHOOSE i \in idx : \A j \in idx : i >= j)

Unsigned(s) == IF s # <<>> /\ Head(s) \in {"-", "+"} THEN Tail(s) ELSE s

\* s is a decimal numeral: an optional sign and one or more digits
IsNumeral(s) ==
    LET u == Unsigned(Core(s)) IN u # <<>> /\ \A i \in 1..Len(u) : u[i] \in Digits

\* the number a decimal numeral denotes
NumeralValue(s) ==
    LET u == Unsigned(Core(s))
        abs == SumOver([i \in 1..Len(u) |-> DigitVal(u[i]) * PowerOfTen(Len(u) - i)],
                       1..Len(u))
    IN IF Head(Core(s)) = "-" THEN 0 - abs ELSE abs

\* the field is numeric, as a number or as text
IsNumeric(v) == v.k = "number" \/ (v.k = "string" /\ IsNumeral(v.s))

\* the coerced value of a field: the number when numeric, zero otherwise
SpecNumber(v) ==
    IF v.k = "number" THEN v.n
    ELSE IF v.k = "string" /\ IsNumeral(v.s) THEN NumeralValue(v.s)
    ELSE 0

Included(r) == r.location # "" /\ r.iso_code # ""

InputRecords == {covidData[i] : i \in 1..Len(covidData)}

\* the included records of a country
RecordsOf(loc) == {r \in InputRecords : Included(r) /\ r.location = loc}

SetMax(S) == CHOOSE m \in S : \A x \in S : x <= m

\* the date text d1 sorts before d2 (an empty text sorts before every date)
DateBefore(d1, d2) ==
    IF d1 = <<>> THEN d2 # <<>>
    ELSE IF d2 = <<>> THEN FALSE
    ELSE \/ d1[1] < d2[1]
         \/ d1[1] = d2[1] /\ d1[2] < d2[2]
         \/ d1[1] = d2[1] /\ d1[2] = d2[2] /\ d1[3] < d2[3]

\* every Country Summary of either implementation's output
Summaries ==
    {countryList[i] : i \in 1..Len(countryList)}
        \cup {countryDataMap[loc] : loc \in DOMAIN countryDataMap}

Aggregated == pc = "aggregated"

\* C1: in the output of the aggregator, totalCases, totalDeaths and
\* totalVaccinations of every country are the maxima of the coerced
\* total_cases, total_deaths and total_vaccinations over all the included
\* records of that country, whichever record is the latest.
C1_TotalsAreMaxima ==
    Aggregated =>
        \A s \in Summaries :
            LET rs == RecordsOf(s.location) IN
            /\ rs # {}
            /\ s.totalCases = Num(SetMax({SpecNumber(r.total_cases) : r \in rs}))
            /\ s.totalDeaths = Num(SetMax({SpecNumber(r.total_deaths) : r \in rs}))
            /\ s.totalVaccinations =
                   Num(SetMax({SpecNumber(r.total_vaccinations) : r \in rs}))

\* the Testland case: the older record holds the maximum of the cases, the
\* newer one the maximum of the deaths
C1_Witness ==
    /\ Aggregated
    /\ \E loc \in DOMAIN countryDataMap :
        LET s == countryDataMap[loc] IN
        /\ \E i \in 1..Len(countryList) : countryList[i] = s
        /\ s.latestData.date = Date2
        /\ s.latestData.total_cases = Text(<<"4", "0">>)
        /\ \E r \in RecordsOf(loc) : r.date = Date1 /\ r.total_cases = Text(<<"5", "0">>)
        /\ s.totalCases = Num(50)
        /\ s.totalDeaths = Num(2)

\* C2: a record whose location or iso_code is empty is left out: no entry is
\* keyed by the empty text, every latest record is an included record of its
\* country, and the maxima are those of the included records alone.
C2_ExcludedRecordsContributeNothing ==
    Aggregated =>
        /\ "" \notin DOMAIN countryDataMap
        /\ \A s \in Summaries :
            LET rs == RecordsOf(s.location) IN
            /\ s.location # ""
            /\ s.latestData \in rs
            /\ s.totalCases = Num(SetMax({SpecNumber(r.total_cases) : r \in rs}))
            /\ s.totalDeaths = Num(SetMax({SpecNumber(r.total_deaths) : r \in rs}))

\* country A has an included record, and a later record with more cases that
\* lacks the iso_code; a record without location is in the input too
C2_Witness ==
    /\ Aggregated
    /\ "A" \in DOMAIN countryDataMap
    /\ countryDataMap["A"].totalCases = Num(40)
    /\ countryDataMap["A"].latestData.date = Date1
    /\ \E r \in InputRecords :
        r.location = "A" /\ r.iso_code = "" /\ r.date = Date2
            /\ r.total_cases = Text(<<"5", "0">>)
    /\ \E r \in InputRecords : r.location = "" /\ r.iso_code # ""

ListLocations == {countryList[i].location : i \in 1..Len(countryList)}

NoDuplicates ==
    \A i, j \in 1..Len(countryList) :
        countryList[i].location = countryList[j].location => i = j

\* C3 as claimed: the output holds exactly one Country Summary for each
\* distinct non-empty location that occurs in the input, under its own key.
C3_OnePerInputLocation ==
    Aggregated =>
        LET locations == {r.location : r \in InputRecords} \ {""} IN
        /\ DOMAIN countryDataMap = locations
        /\ ListLocations = locations
        /\ NoDuplicates
        /\ \A loc \in DOMAIN countryDataMap : countryDataMap[loc].location = loc

\* C3: the output holds exactly one Country Summary for each distinct
\* non-empty location that occurs in a record whose iso_code is not empty,
\* none for any other location, and each summary's location is its key.
C3_OnePerIncludedLocation ==
    Aggregated =>
        LET locations == {r.location : r \in {x \in InputRecords : Included(x)}} IN
        /\ DOMAIN countryDataMap = locations
        /\ ListLocations = locations
        /\ NoDuplicates
        /\ \A loc \in DOMAIN countryDataMap : countryDataMap[loc].location = loc

\* two records of country A and one of country B, all included
C3_Witness ==
    /\ Aggregated
    /\ Len(covidData) = 3
    /\ \A r \in InputRecords : Included(r)
    /\ Cardinality({i \in 1..Len(covidData) : covidData[i].location = "A"}) = 2
    /\ DOMAIN countryDataMap = {"A", "B"}
    /\ Len(countryList) = 2

\* C4 as claimed: latestData is the included record of the country with the
\* maximum date, and iso_code and continent are those of that record.
C4_LatestIsMaxDate ==
    Aggregated =>
        \A s \in Summaries :
            /\ s.latestData \in RecordsOf(s.location)
            /\ \A r \in RecordsOf(s.location) : ~DateBefore(s.latestData.date, r.date)
            /\ s.iso_code = s.latestData.iso_code
            /\ s.continent = s.latestData.continent

\* C5: population, casesPerMillion, deathsPerMillion and vaccinationRate are
\* the coerced population, total_cases_per_million, total_deaths_per_million
\* and total_vaccinations_per_hundred of the latest record (the number when the
\* field is numeric, zero when it is empty, absent or not numeric), and every
\* scalar of a summary is a number, never text and never NaN.
C5_ScalarsCoercedFromLatest ==
    Aggregated =>
        \A s \in Summaries :
            /\ s.population = Num(SpecNumber(s.latestData.population))
            /\ s.casesPerMillion = Num(SpecNumber(s.latestData.total_cases_per_million))
            /\ s.deathsPerMillion = Num(SpecNumber(s.latestData.total_deaths_per_million))
            /\ s.vaccinationRate =
                   Num(SpecNumber(s.latestData.total_vaccinations_per_hundred))
            /\ \A v \in {s.totalCases, s.totalDeaths, s.totalVaccinations, s.population,
                         s.casesPerMillion, s.deathsPerMillion, s.vaccinationRate} :
                   IsNumber(v)

\* one country whose latest record has an absent population, an empty
\* total_cases_per_million and a numeric text, another whose latest record has
\* a number, a text that is not numeric and a blank text
C5_Witness ==
    /\ Aggregated
    /\ \E s \in Summaries :
        /\ s.latestData.population = Undefined /\ s.population = Num(0)
        /\ s.latestData.total_cases_per_million = Text(<<>>) /\ s.casesPerMillion = Num(0)
        /\ s.latestData.total_deaths_per_million = Text(<<"3">>)
        /\ s.deathsPerMillion = Num(3)
    /\ \E s \in Summaries :
        /\ s.latestData.population = Num(5) /\ s.population = Num(5)
        /\ s.latestData.total_cases_per_million = Text(<<"1", "x">>)
        /\ s.casesPerMillion = Num(0)
        /\ s.latestData.total_deaths_per_million = Text(<<" ">>)
        /\ s.deathsPerMillion = Num(0)
        /\ s.vaccinationRate = Num(0 - 4)

\* the field is empty, absent or not numeric
EmptyOrNonNumeric(v) == ~IsNumeric(v)

\* C6: a country all of whose records have an empty or non-numeric
\* total_cases has a Country Summary, and its totalCases is 0; likewise
\* totalDeaths and totalVaccinations with their fields.
C6_AllEmptyGivesZero ==
    Aggregated =>
        \A loc \in {r.location : r \in {x \in InputRecords : Included(x)}} :
            LET rs == RecordsOf(loc) IN
            /\ loc \in DOMAIN countryDataMap
            /\ loc \in ListLocations
            /\ \A s \in {x \in Summaries : x.location = loc} :
                /\ (\A r \in rs : EmptyOrNonNumeric(r.total_cases))
                       => s.totalCases = Num(0)
                /\ (\A r \in rs : EmptyOrNonNumeric(r.total_deaths))
                       => s.totalDeaths = Num(0)
                /\ (\A r \in rs : EmptyOrNonNumeric(r.total_vaccinations))
                       => s.totalVaccinations = Num(0)

\* country B has two records at different dates with an empty total_cases, a
\* non-numeric total_deaths and an absent total_vaccinations
C6_Witness ==
    /\ Aggregated
    /\ Cardinality(RecordsOf("B")) = 2
    /\ \A r \in RecordsOf("B") :
        /\ r.total_cases = Text(<<>>)
        /\ r.total_deaths = Text(<<"x">>)
        /\ r.total_vaccinations = Undefined
    /\ countryDataMap["B"].totalCases = Num(0)
    /\ countryDataMap["B"].totalDeaths = Num(0)
    /\ countryDataMap["B"].totalVaccinations = Num(0)

(***************************************************************************)
(* What the specification says of the colour classifier.                   *)
(***************************************************************************)
Boundaries == {1000, 10000, 50000, 100000, 200000, 500000, 1000000}

BucketColorSet == {BucketColors[i] : i \in 1..Len(BucketColors)}

\* the bucket of a metric: bucket 0 below the first boundary, one more for
\* every boundary the metric has reached
BucketOf(metric) == Cardinality({b \in Boundaries : b <= metric})

Classified == pc = "classified"

\* C7: a metric that is not 'no data' gets the colour of its bucket, where a
\* value equal to a boundary is in the higher bucket (999 in bucket 0, 1000 in
\* bucket 1, 1000000 in bucket 7), and the 8 bucket colours are distinct.
C7_BucketByStrictlyLess ==
    /\ Cardinality(BucketColorSet) = 8
    /\ Classified =>
        \A name \in DOMAIN countryDataMap :
            LET metric == countryDataMap[name].casesPerMillion IN
            (color.countryName = name /\ IsNumber(metric) /\ metric.n # 0) =>
                /\ color.value = BucketColors[BucketOf(metric.n) + 1]
                /\ metric.n = 999 => color.value = BucketColors[1]
                /\ metric.n = 1000 => color.value = BucketColors[2]
                /\ metric.n = 1000000 => color.value = BucketColors[8]

\* the metric of country A is exactly the first boundary, given as text
C7_Witness ==
    /\ Classified
    /\ color.countryName = "A"
    /\ "A" \in DOMAIN countryDataMap
    /\ countryDataMap["A"].latestData.total_cases_per_million = Text(<<"1", "0", "0", "0">>)
    /\ countryDataMap["A"].casesPerMillion = Num(1000)
    /\ color.value = "#c8e6c9"

\* the metric is undefined, zero or not a number
NoMetric(metric) == metric.k \in {"undefined", "NaN"} \/ (IsNumber(metric) /\ metric.n = 0)

\* C8: the colour is the 'no data' colour exactly when the country has no
\* Country Summary or its casesPerMillion is undefined, zero or NaN; every
\* other metric gets one of the 8 bucket colours, none of which is the
\* 'no data' colour.
C8_NoDataIff ==
    /\ NoDataColor \notin BucketColorSet
    /\ Classified =>
        LET missing == color.countryName \notin DOMAIN countryDataMap IN
        /\ color.value = NoDataColor <=>
               (missing \/ NoMetric(countryDataMap[color.countryName].casesPerMillion))
        /\ color.value # NoDataColor => color.value \in BucketColorSet

\* country A is in the mapping with an empty total_cases_per_million
C8_Witness ==
    /\ Classified
    /\ color.countryName = "A"
    /\ "A" \in DOMAIN countryDataMap
    /\ countryDataMap["A"].latestData.total_cases_per_million = Text(<<>>)
    /\ countryDataMap["A"].casesPerMillion = Num(0)
    /\ "B" \in DOMAIN countryDataMap
    /\ color.value = NoDataColor

\* C9: a call of the classifier returns one of the nine colour tokens, a
\* second call for the same country and mapping returns the same token, and
\* a call changes neither the Raw Records, the mapping, the selection nor the
\* tooltip state.
C9_ClassifierPureAndTotal ==
    [][pc' = "classified" =>
        /\ color'.value \in BucketColorSet \cup {NoDataColor}
        /\ (pc = "classified" /\ color'.countryName = color.countryName)
               => color'.value = color.value
        /\ UNCHANGED <<covidData, countryDataMap, countryList, selectedCountry, tooltip,
                       tooltipTimeoutRef, timers>>]_vars

\* the classifier was called for a region without Country Summary while the
\* mapping holds a country of the highest bucket
C9_Witness ==
    /\ Classified
    /\ color.countryName = "C"
    /\ color.value = NoDataColor
    /\ "A" \in DOMAIN countryDataMap
    /\ countryDataMap["A"].casesPerMillion = Num(1000001)

(***************************************************************************)
(* What the specification says of the Selection State.                     *)
(***************************************************************************)
\* C10: a click on a country name that is not a key of the current mapping
\* leaves the selection as it was, none or some country, and calls
\* onCountrySelect not at all.
C10_UnknownClickIsNoOp ==
    [][(event'.type = "click" /\ event'.countryName \notin DOMAIN countryDataMap)
           => (selectedCountry' = selectedCountry /\ notified' = 0)]_vars

\* a country is selected, and the last click was on a name the mapping lacks
C10_Witness ==
    /\ event.type = "click"
    /\ event.countryName \notin DOMAIN countryDataMap
    /\ DOMAIN countryDataMap # {}
    /\ selectedCountry # Null
    /\ notified = 0


\* C11: a click on a country name that is a key of the current mapping calls
\* onCountrySelect once, and the selection becomes the Country Summary the
\* mapping holds for that name, whatever was selected before; the location
\* of the selection is then the clicked name.
C11_KnownClickSelects ==
    [][(event'.type = "click" /\ event'.countryName \in DOMAIN countryDataMap)
           => /\ notified' = 1
              /\ selectedCountry' = countryDataMap[event'.countryName]
              /\ selectedCountry'.location = event'.countryName]_vars

\* the mapping holds two countries, and the last click selected B
C11_Witness ==
    /\ event.type = "click"
    /\ event.countryName = "B"
    /\ DOMAIN countryDataMap = {"A", "B"}
    /\ notified = 1
    /\ selectedCountry # Null
    /\ selectedCountry.location = "B"

\* C12: the selection is none or one Country Summary, and no step of the
\* load sequence, no click, no pointer move, no pointer leave and no tooltip
\* timeout takes a selection back to none.
C12_SelectionNeverCleared ==
    [][selectedCountry # Null
           => selectedCountry' # Null]_vars

\* a country is selected and the pointer has just left a region while the
\* tooltip was shown
C12_Witness ==
    /\ selectedCountry # Null
    /\ event.type = "leave"
    /\ tooltip.content.countryName # ""
    /\ ~tooltip.visible

\* C13: the selection is none, or it is the Country Summary that the current
\* mapping holds under the location of the selection.
C13_SelectionInMapping ==
    selectedCountry # Null =>
        /\ selectedCountry.location \in DOMAIN countryDataMap
        /\ countryDataMap[selectedCountry.location] = selectedCountry

\* after the loaded country A was selected, a click on a name the mapping
\* lacks came
C13_Witness ==
    /\ selectedCountry # Null
    /\ selectedCountry.location = "A"
    /\ countryDataMap["A"].totalCases = Num(50)
    /\ event.type = "click"
    /\ event.countryName = "Germany"

(***************************************************************************)
(* What the specification says of a load that fails.                       *)
(***************************************************************************)
FetchFailed == parsed.branch \in {"fetch rejected", "response not ok"}
DecodeFailed == parsed.branch \in {"text rejected", "parse error"}
LoadEnded == pc = "done"
Continents(map) == {map[loc].continent : loc \in DOMAIN map}
ErrorViewShown == ~loading /\ error # ""

\* C14: when fetch rejects or the response is not ok, parseCSV resolves with
\* the hardcoded sample, and the mapping aggregated from it is not empty,
\* holds United States, United Kingdom and Germany, and spans at least two
\* continents.
C14_FetchFailureGivesSample ==
    FetchFailed =>
        /\ parsed.ok
        /\ parsed.data = GetSampleData
        /\ LoadEnded =>
              /\ DOMAIN countryDataMap # {}
              /\ {"United States", "United Kingdom", "Germany"} \subseteq DOMAIN countryDataMap
              /\ Cardinality(Continents(countryDataMap)) >= 2

\* the response was not ok and the sample has been aggregated
C14_Witness ==
    /\ parsed.branch = "response not ok"
    /\ LoadEnded
    /\ Cardinality(DOMAIN countryDataMap) = 3
    /\ countryDataMap["United States"].continent = "North America"

\* C15: when the decoder reports an error, or reading the response body
\* fails, parseCSV resolves (it does not reject) with the sample a failed
\* fetch gives, which is not empty, and the load stores that sample.
C15_DecodeFailureGivesSample ==
    DecodeFailed =>
        /\ parsed.ok
        /\ parsed.data = GetSampleData
        /\ parsed.data # <<>>
        /\ pc \in {"finally", "done"} => (covidData = GetSampleData /\ error = "")

\* Papa.parse reported an error and the load has ended
C15_Witness ==
    /\ parsed.branch = "parse error"
    /\ LoadEnded
    /\ Len(covidData) = 3
    /\ covidData[3].location = "Germany"

\* C16: a load whose fetch or decoding failed never sets the error message,
\* and when the load sequence has ended loading is false, the Raw Records
\* are the sample and the map view is shown.
C16_FailedLoadShowsMap ==
    (FetchFailed \/ DecodeFailed) =>
        /\ error = ""
        /\ LoadEnded =>
              /\ ~loading
              /\ covidData = GetSampleData
              /\ ShowsMap
              /\ ~ErrorViewShown

\* fetch was rejected, the map is shown and a country of the sample has been
\* selected on it
C16_Witness ==
    /\ parsed.branch = "fetch rejected"
    /\ LoadEnded
    /\ ShowsMap
    /\ selectedCountry # Null
    /\ selectedCountry.location = "Germany"

\* C17: the error view is shown exactly when the load sequence has ended
\* with the parseCSV promise rejected; then the message is the static one,
\* loading is false and there are neither Raw Records nor a selection.  In
\* every other outcome no message is set.
C17_ErrorViewIffRejected ==
    /\ ErrorViewShown <=> (LoadEnded /\ ~parsed.ok)
    /\ (LoadEnded /\ ~parsed.ok) =>
          /\ error = ErrorMessage
          /\ ~loading
          /\ covidData = <<>>
          /\ selectedCountry = Null
    /\ parsed.ok => error = ""

\* the promise was rejected and the load sequence has ended
C17_Witness ==
    /\ parsed.branch = "parse throws"
    /\ ~parsed.ok
    /\ LoadEnded
    /\ ErrorViewShown

Readers == {"finally", "click", "move", "leave", "timeout"}

\* C19: the aggregation of the memo, a click, a pointer move, a pointer
\* leave and a tooltip timeout leave the Raw Records as they are, so the Raw
\* Records stay the sequence the load stored; and the mapping changes only
\* in the step that aggregates the Raw Records the load has just stored.
C19_RawRecordsImmutable ==
    [][/\ event'.type \in Readers => covidData' = covidData
       /\ (pc' \in {"finally", "done"} /\ parsed'.ok) => covidData' = parsed'.data
       /\ countryDataMap' # countryDataMap =>
             /\ event'.type = "finally"
             /\ pc = "finally"
             /\ \E engine \in 1..MaxRecords :
                    countryDataMap' = CountryDataMap(covidData, engine)]_vars

\* the load stored two records of one country, the older one first; the
\* memo took the newer one as the latest, the country was selected and its
\* tooltip is shown, and the Raw Records are in the order of the load
C19_Witness ==
    /\ LoadEnded
    /\ Len(covidData) = 2
    /\ covidData[1].location = "A" /\ covidData[1].date = Date1
    /\ covidData[2].location = "A" /\ covidData[2].date = Date2
    /\ countryDataMap["A"].latestData = covidData[2]
    /\ selectedCountry # Null
    /\ tooltip.visible
    /\ event.type = "timeout"

(***************************************************************************)
(* What the README says of the colours (Color Legend).                     *)
(***************************************************************************)
\* the hue of a colour token, as the comments of getCountryColor name it
Greens == {"#e8f5e8", "#c8e6c9", "#81c784", "#4caf50", "#388e3c"}
Oranges == {"#ff9800", "#f57c00"}
Reds == {"#d32f2f"}
Grays == {"#f0f0f0"}

\* C20: a country without data is gray; a country is green when its cases
\* per million are below 100K, orange when they are between 100K and 500K,
\* and red when they are above 500K (at exactly 100K and 500K either
\* neighbouring hue is taken as documented).
C20_ReadmeLegend ==
    Classified =>
        IF color.countryName \notin DOMAIN countryDataMap
        THEN color.value \in Grays
        ELSE LET metric == countryDataMap[color.countryName].casesPerMillion IN
             /\ NoMetric(metric) => color.value \in Grays
             /\ (IsNumber(metric) /\ metric.n # 0) =>
                   /\ metric.n < 100000 => color.value \in Greens
                   /\ (100000 < metric.n /\ metric.n < 500000) => color.value \in Oranges
                   /\ metric.n > 500000 => color.value \in Reds
                   /\ metric.n = 100000 => color.value \in Greens \cup Oranges
                   /\ metric.n = 500000 => color.value \in Oranges \cup Reds

(***************************************************************************)
(* What holds of the two aggregators, of the order of the input and of     *)
(* records that share a date.                                              *)
(***************************************************************************)
\* C21: the list processCountryData returns and the Map the memo of WorldMap
\* builds hold the same locations, and for each location the same Country
\* Summary, field by field.
C21_AggregatorsAgree ==
    Aggregated =>
        /\ ListLocations = DOMAIN countryDataMap
        /\ Len(countryList) = Cardinality(DOMAIN countryDataMap)
        /\ \A i \in 1..Len(countryList) :
              LET s == countryList[i]
                  m == countryDataMap[s.location]
              IN /\ s.latestData = m.latestData
                 /\ s.iso_code = m.iso_code
                 /\ s.continent = m.continent
                 /\ s.totalCases = m.totalCases
                 /\ s.totalDeaths = m.totalDeaths
                 /\ s.totalVaccinations = m.totalVaccinations
                 /\ s.population = m.population
                 /\ s.casesPerMillion = m.casesPerMillion
                 /\ s.deathsPerMillion = m.deathsPerMillion
                 /\ s.vaccinationRate = m.vaccinationRate

\* both hold two countries, and country A has an older and a newer record
\* that differ in every field
C21_Witness ==
    /\ Aggregated
    /\ Len(countryList) = 2
    /\ DOMAIN countryDataMap = {"A", "B"}
    /\ countryDataMap["A"].latestData.date = Date2
    /\ countryDataMap["A"].iso_code = "AB"
    /\ \E r \in RecordsOf("A") : r.date = Date1 /\ r.iso_code = "AA"

\* the permutations of 1..n and a sequence rearranged by one
Rearrangements(n) == {p \in [1..n -> 1..n] : \A i, j \in 1..n : p[i] = p[j] => i = j}
Rearranged(s, p) == [i \in 1..Len(s) |-> s[p[i]]]

\* no country has two included records with the same date text
DatesDistinct ==
    \A i, j \in 1..Len(covidData) :
        (/\ Included(covidData[i]) /\ Included(covidData[j])
         /\ covidData[i].location = covidData[j].location
         /\ covidData[i].date = covidData[j].date) => i = j

ListSummaries(list) == {list[i] : i \in 1..Len(list)}

\* C22: when no country has two records with the same date, the aggregation
\* of every rearrangement of the input gives the same countries and the same
\* Country Summary for each country (with the order the engine's sort gives
\* where that order is implementation-defined).
C22_OrderIndependent ==
    (Aggregated /\ DatesDistinct) =>
        \A p \in Rearrangements(Len(covidData)) :
            \E engine \in 1..MaxRecords :
                /\ CountryDataMap(Rearranged(covidData, p), engine) = countryDataMap
                /\ ListSummaries(ProcessCountryData(Rearranged(covidData, p), engine))
                       = ListSummaries(countryList)

\* the records of a country that carry its maximum date, and the first of
\* them in the input
MaxDateRecords(loc) ==
    {r \in RecordsOf(loc) :
        r.date # <<>> /\ \A q \in RecordsOf(loc) : ~DateBefore(r.date, q.date)}
FirstInInput(rs) ==
    covidData[CHOOSE i \in 1..Len(covidData) :
                  covidData[i] \in rs /\ \A j \in 1..(i - 1) : covidData[j] \notin rs]

\* C23: when several included records of a country share its maximum date,
\* the latest record is the first of them in the input, and iso_code,
\* continent and the four scalars of the summary come from that record.
C23_TieGoesToFirstInInput ==
    Aggregated =>
        \A s \in Summaries :
            LET tied == MaxDateRecords(s.location) IN
            Cardinality(tied) >= 2 =>
                LET first == FirstInInput(tied) IN
                /\ s.latestData = first
                /\ s.iso_code = first.iso_code
                /\ s.continent = first.continent
                /\ s.population = Num(SpecNumber(first.population))
                /\ s.casesPerMillion = Num(SpecNumber(first.total_cases_per_million))
                /\ s.deathsPerMillion = Num(SpecNumber(first.total_deaths_per_million))
                /\ s.vaccinationRate = Num(SpecNumber(first.total_vaccinations_per_hundred))

(***************************************************************************)
(* The colour of a country with several records.                           *)
(***************************************************************************)
\* C24: the colour of a country is that of the total_cases_per_million of
\* its latest record alone: the 'no data' colour when that field is empty
\* or not numeric (or zero), whatever earlier records carry and whatever
\* totalCases is, and the colour of that value's bucket otherwise.
C24_ColorByLatestOnly ==
    Classified =>
        \A name \in DOMAIN countryDataMap :
            color.countryName = name =>
                LET metric == countryDataMap[name].latestData.total_cases_per_million IN
                /\ EmptyOrNonNumeric(metric) => color.value = NoDataColor
                /\ color.value =
                       IF SpecNumber(metric) = 0 THEN NoDataColor
                       ELSE BucketColors[BucketOf(SpecNumber(metric)) + 1]

\* the latest record of country A has an empty total_cases_per_million, an
\* earlier record has 20 there, totalCases is 50, and A got the 'no data'
\* colour
C24_Witness ==
    /\ Classified
    /\ color.countryName = "A"
    /\ "A" \in DOMAIN countryDataMap
    /\ countryDataMap["A"].latestData.date = Date2
    /\ countryDataMap["A"].latestData.total_cases_per_million = Text(<<>>)
    /\ \E r \in RecordsOf("A") :
          r.date = Date1 /\ r.total_cases_per_million = Text(<<" ", "2", "0", " ">>)
    /\ countryDataMap["A"].totalCases = Num(50)
    /\ color.value = NoDataColor

(***************************************************************************)
(* What the specification says of the tooltip.                             *)
(***************************************************************************)
\* the summary of the country has a totalCases above zero
ValidCountry(countryName) ==
    /\ countryName \in DOMAIN countryDataMap
    /\ countryDataMap[countryName].totalCases.k = "number"
    /\ countryDataMap[countryName].totalCases.n > 0

\* C25: right after a pointer leave no display is pending and the tooltip
\* is not visible; a tooltip that is not visible becomes visible only by the
\* firing of a display that is pending then, and every pending display was
\* scheduled by a pointer move over a country with data.  So a display
\* scheduled before the leave never fires after it.
C25_LeaveCancelsAndHides ==
    [][/\ event'.type = "leave" => (timers' = {} /\ ~tooltip'.visible)
       /\ (~tooltip.visible /\ tooltip'.visible) =>
             /\ event'.type = "timeout"
             /\ \E tm \in timers : tooltip'.content = tm.content /\ tm \notin timers'
       /\ \A tm \in timers' \ timers :
             /\ event'.type = "move"
             /\ tm.content.countryName = event'.countryName
             /\ ValidCountry(event'.countryName)]_vars

\* the pointer has left a region whose tooltip had been shown, and nothing
\* is selected
C25_Witness ==
    /\ event.type = "leave"
    /\ timers = {}
    /\ tooltipTimeoutRef = 0
    /\ ~tooltip.visible
    /\ tooltip.content.countryName = "A"
    /\ selectedCountry = Null

\* C26: a visible tooltip names a country of the mapping whose totalCases
\* is above zero, and so does every pending display; a pointer move over a
\* country that the mapping lacks or whose totalCases is 0 schedules none.
C26_TooltipOnlyForValidData ==
    /\ tooltip.visible =>
          /\ ValidCountry(tooltip.content.countryName)
          /\ tooltip.content.cases = countryDataMap[tooltip.content.countryName].totalCases
    /\ \A tm \in timers : ValidCountry(tm.content.countryName)
    /\ (event.type = "move" /\ ~ValidCountry(event.countryName)) =>
          \A tm \in timers : tm.content.countryName # event.countryName

\* the pointer moved over country B, which the mapping holds with
\* totalCases 0, while the tooltip of country A is shown
C26_Witness ==
    /\ event.type = "move"
    /\ event.countryName = "B"
    /\ "B" \in DOMAIN countryDataMap
    /\ countryDataMap["B"].totalCases = Num(0)
    /\ tooltip.visible
    /\ tooltip.content.countryName = "A"
    /\ timers = {}

(***************************************************************************)
(* What the specification says of the load sequence.                       *)
(***************************************************************************)
\* C27: loading is true at the start and false from some state on, whether
\* the promise resolved or rejected; loading never goes from false to true;
\* the load starts from the mounted App only and nothing leads back there;
\* and the Raw Records are assigned only by the one step in which the
\* settled promise is stored.
C27_LoadRunsOnceAndSettles ==
    /\ loading = TRUE
    /\ <>[](~loading)
    /\ [][/\ loading' => loading
          /\ event'.type = "load" => pc = "mount"
          /\ pc' = "mount" => pc = "mount"
          /\ pc \in {"finally", "done"} => pc' \in {"finally", "done"}
          /\ covidData' # covidData => (pc = "settled" /\ pc' = "finally")]_vars

\* the load sequence has just ended after the promise resolved with records
C27_Witness ==
    /\ LoadEnded
    /\ ~loading
    /\ event.type = "finally"
    /\ parsed.branch = "parse complete"
    /\ Len(covidData) = MaxRecords

(***************************************************************************)
(* C28: nothing can be selected before the load has finished.              *)
(***************************************************************************)
InteractionEvents == {"click", "move", "leave"}

\* C28: in every state where loading is true or the error message is set the
\* map and its regions are not rendered and the selection is empty, and no
\* step taken from such a state is a click, a pointer move or a pointer leave.
C28_NoInteractionBeforeLoaded ==
    /\ []((loading \/ error # "") =>
             /\ ~ShowsMap
             /\ ~RegionsRendered
             /\ selectedCountry = Null)
    /\ [][(loading \/ error # "") => event'.type \notin InteractionEvents]_vars

\* the records have arrived and the loading view is still shown
C28_Witness ==
    /\ loading
    /\ pc = "finally"
    /\ event.type = "resolved"
    /\ Len(covidData) = MaxRecords
    /\ selectedCountry = Null

(***************************************************************************)
(* C29: an empty dataset that was decoded without error is kept.           *)
(***************************************************************************)
\* Papa.parse completed with no row
EmptyDecoded == parsed.branch = "parse complete" /\ parsed.data = <<>>

\* C29: when the file was fetched and decoded without error and holds no
\* record, the Raw Records stay empty (the sample does not replace them), the
\* mapping is empty, no region is rendered and no handler of a region has
\* run, the selection is empty, and once the load has ended the map shows
\* the message "No COVID-19 data available".
C29_EmptyDatasetKept ==
    EmptyDecoded =>
        /\ covidData = <<>>
        /\ countryDataMap = EmptyMap
        /\ ~RegionsRendered
        /\ event.type \notin InteractionEvents
        /\ timers = {}
        /\ ~tooltip.visible
        /\ selectedCountry = Null
        /\ (LoadEnded => NoDataMessageShown)

\* the load has ended on the empty dataset
C29_Witness ==
    /\ EmptyDecoded
    /\ LoadEnded
    /\ event.type = "finally"
    /\ NoDataMessageShown
    /\ covidData = <<>>

(***************************************************************************)
(* C30: the rates of the detail panel never divide by zero.                *)
(***************************************************************************)
DividedByZero(rate) == rate.k \in {"Infinity", "NaN"}
IsZeroRate(rate) == rate.k = "number" /\ rate.num = 0

\* what the panel is to show for a count and a population
SpecRate(count, population, rate) ==
    /\ ~DividedByZero(rate)
    /\ (count.n > 0 /\ population.n > 0) =>
           rate = [k |-> "number", num |-> count.n, den |-> population.n]
    /\ (count.n = 0 \/ population.n = 0) => IsZeroRate(rate)

\* C30: for every selected Country Summary the case rate and the death rate
\* are count / population * 100 when the population and the count are both
\* positive, 0 when the population or the count is 0, and never the result
\* of a division by zero.
C30_RatesNeverDivideByZero ==
    selectedCountry # Null =>
        /\ SpecRate(Coerce(selectedCountry.totalCases), Coerce(selectedCountry.population),
                    CaseRate(selectedCountry))
        /\ SpecRate(Coerce(selectedCountry.totalDeaths), Coerce(selectedCountry.population),
                    DeathRate(selectedCountry))

\* a country with cases and deaths and no population has been selected
C30_Witness ==
    /\ selectedCountry # Null
    /\ event.type = "click"
    /\ Coerce(selectedCountry.population) = Num(0)
    /\ Coerce(selectedCountry.totalCases).n > 0
    /\ Coerce(selectedCountry.totalDeaths).n > 0
    /\ CaseRate(selectedCountry) = RateZero
    /\ DeathRate(selectedCountry) = RateZero

\* the other cases of the rates are reached as well
C30_BothPositiveReached ==
    /\ selectedCountry # Null
    /\ CaseRate(selectedCountry) = [k |-> "number", num |-> 50, den |-> 1000]
    /\ DeathRate(selectedCountry) = [k |-> "number", num |-> 1, den |-> 1000]
C30_NoCountReached ==
    /\ selectedCountry # Null
    /\ Coerce(selectedCountry.population).n > 0
    /\ Coerce(selectedCountry.totalCases) = Num(0)
    /\ Coerce(selectedCountry.totalDeaths) = Num(0)

====
